---- MODULE Spec2Model ----
(***************************************************************************)
(* Model of the lead-qualification pipeline of betty_abonnement_V3:       *)
(* bot.py (LLM client, lead tag extractor, heuristic extractor,           *)
(* rule-based fallback), mail.py (dispatch) and the chat endpoint         *)
(* /api/bettybot and /api/reset of app.py.                                *)
(*                                                                         *)
(* A text is a sequence of one-character strings.  The regular            *)
(* expressions of the source are written as item sequences and run by a   *)
(* backtracking matcher with Python's priorities (greedy / lazy           *)
(* quantifiers, ordered alternation, leftmost search).                    *)
(***************************************************************************)
EXTENDS Integers, Sequences, FiniteSets, TLC

(***************************************************************************)
(* Characters                                                              *)
(***************************************************************************)
NL == "\n"
QUOTE == "\""
BACKSLASH == "\\"
\* the inline-code marker (a grave accent), which a string literal cannot hold
BACKTICK == "grave"

LowerAlpha ==
  <<"a","b","c","d","e","f","g","h","i","j","k","l","m",
    "n","o","p","q","r","s","t","u","v","w","x","y","z">>
UpperAlpha ==
  <<"A","B","C","D","E","F","G","H","I","J","K","L","M",
    "N","O","P","Q","R","S","T","U","V","W","X","Y","Z">>

Range(f) == {f[i] : i \in DOMAIN f}

AsciiLetters == Range(LowerAlpha) \cup Range(UpperAlpha)
\* the letters of [À-ÖØ-öø-ÿ] that the program's own texts use
AccentLetters == {"é", "è"}
Digits == {"0","1","2","3","4","5","6","7","8","9"}
\* \s
Space == {" ", NL}
\* \w
WordChars == AsciiLetters \cup AccentLetters \cup Digits \cup {"_"}
Punct == {"@", ".", "-", "+", "'", ":", ",", "?", "!", "{", "}", "<", ">", "/",
          BACKTICK, QUOTE, BACKSLASH}
\* every character a text of the model is made of
Alphabet == WordChars \cup Space \cup Punct

\* re.I: case folding, as a table over the alphabet
LowerTable ==
  [c \in Alphabet |->
     IF \E i \in DOMAIN UpperAlpha : UpperAlpha[i] = c
     THEN LowerAlpha[CHOOSE i \in DOMAIN UpperAlpha : UpperAlpha[i] = c]
     ELSE c]

Lower(c) == LowerTable[c]

(***************************************************************************)
(* str methods                                                             *)
(***************************************************************************)
Min(S) == CHOOSE a \in S : \A b \in S : a <= b
Max(S) == CHOOSE a \in S : \A b \in S : a >= b

\* the positions of t that hold no whitespace
Inked(t) == {i \in DOMAIN t : t[i] \notin Space}

RStrip(t) == IF Inked(t) = {} THEN <<>> ELSE SubSeq(t, 1, Max(Inked(t)))
LStrip(t) == IF Inked(t) = {} THEN <<>> ELSE SubSeq(t, Min(Inked(t)), Len(t))
Strip(t) == LStrip(RStrip(t))

\* ts[lo] \o ... \o ts[hi], by halves
RECURSIVE ConcatRange(_, _, _)
ConcatRange(ts, lo, hi) ==
  IF lo > hi THEN <<>>
  ELSE IF lo = hi THEN ts[lo]
  ELSE ConcatRange(ts, lo, (lo + hi) \div 2) \o ConcatRange(ts, (lo + hi) \div 2 + 1, hi)

Concat(ts) == ConcatRange(ts, 1, Len(ts))

\* sep.join(ts)
Join(sep, ts) ==
  Concat([i \in 1..Len(ts) |-> IF i = 1 THEN ts[i] ELSE sep \o ts[i]])

\* text[:n] for 0 <= n
Prefix(t, n) == SubSeq(t, 1, n)

(***************************************************************************)
(* Regular expressions.  A pattern is a sequence of items:                *)
(*   lit : a literal string (ci: compared case-insensitively)             *)
(*   cls : a character class with a quantifier {min,max}; max = -1 is     *)
(*         unbounded; greedy or lazy                                       *)
(*   alt : ordered alternation of item sequences                           *)
(*   open / close : the parentheses of capture group 1                    *)
(*   eos : $ (end of text, or just before a final newline)                *)
(***************************************************************************)
Lit(s)       == [t |-> "lit", s |-> s, ci |-> FALSE]
LitI(s)      == [t |-> "lit", s |-> s, ci |-> TRUE]
Rep(c, lo, hi) == [t |-> "cls", c |-> c, min |-> lo, max |-> hi, greedy |-> TRUE]
Lazy(c, lo, hi) == [t |-> "cls", c |-> c, min |-> lo, max |-> hi, greedy |-> FALSE]
Star(c)      == Rep(c, 0, -1)
Plus(c)      == Rep(c, 1, -1)
Opt(c)       == Rep(c, 0, 1)
One(c)       == Rep(c, 1, 1)
Alt(as)      == [t |-> "alt", alts |-> as]
GOpen        == [t |-> "open"]
GClose       == [t |-> "close"]
Eos          == [t |-> "eos"]

NoMatch == [ok |-> FALSE, start |-> 0, end |-> 0, g1s |-> 0, g1e |-> 0]

LitAt(text, pos, s, ci) ==
  /\ pos + Len(s) - 1 <= Len(text)
  /\ \A i \in 1..Len(s) :
       IF ci THEN Lower(text[pos + i - 1]) = Lower(s[i])
       ELSE text[pos + i - 1] = s[i]

\* number of consecutive characters of class c from pos, at most hi (hi = -1: any);
\* the text is scanned eight characters at a time
RECURSIVE RunLen(_, _, _, _)
RunLen(text, c, pos, hi) ==
  LET left == Len(text) - pos + 1
      lim == IF hi = -1 \/ left < hi THEN left ELSE hi
      step == IF lim < 8 THEN lim ELSE 8
      stop == {i \in 0..(step - 1) : text[pos + i] \notin c}
  IN IF stop # {} THEN Min(stop)
     ELSE IF lim <= 8 THEN lim
     ELSE 8 + RunLen(text, c, pos + 8, IF hi = -1 THEN -1 ELSE hi - 8)

\* the lengths k in lo..hi a quantifier at pos can take so that the rest can
\* match after it: where the rest begins with a literal, the literal must follow
Follow(text, rest, pos, lo, hi) ==
  IF rest # <<>> /\ rest[1].t = "lit"
  THEN {k \in lo..hi : LitAt(text, pos + k, rest[1].s, rest[1].ci)}
  ELSE lo..hi

\* Match(text, items, pos, m): the first match, in backtracking order, of the
\* items from position pos; m carries the capture positions found so far.
RECURSIVE Match(_, _, _, _)
RECURSIVE TryRep(_, _, _, _, _, _, _, _)
RECURSIVE TryAlt(_, _, _, _, _)

Match(text, items, pos, m) ==
  IF items = <<>> THEN [m EXCEPT !.ok = TRUE, !.end = pos]
  ELSE LET it == Head(items)
           rest == Tail(items)
       IN CASE it.t = "lit" ->
                 IF LitAt(text, pos, it.s, it.ci)
                 THEN Match(text, rest, pos + Len(it.s), m)
                 ELSE NoMatch
            [] it.t = "cls" ->
                 LET n == RunLen(text, it.c, pos, it.max)
                     ks == Follow(text, rest, pos, it.min, n)
                 IN IF n < it.min \/ ks = {} THEN NoMatch
                    ELSE TryRep(text, rest, pos, m, it.greedy, ks, it.min, n)
            [] it.t = "alt" -> TryAlt(text, it.alts, rest, pos, m)
            [] it.t = "open" -> Match(text, rest, pos, [m EXCEPT !.g1s = pos])
            [] it.t = "close" -> Match(text, rest, pos, [m EXCEPT !.g1e = pos])
            [] it.t = "eos" ->
                 IF pos = Len(text) + 1 \/ (pos = Len(text) /\ text[pos] = NL)
                 THEN Match(text, rest, pos, m)
                 ELSE NoMatch

\* the quantifier takes k characters, for the k of ks within lo..hi, the longest
\* first if greedy and the shortest first if not, until the rest matches (the
\* range is searched by halves)
TryRep(text, rest, pos, m, greedy, ks, lo, hi) ==
  IF \A k \in ks : k < lo \/ k > hi THEN NoMatch
  ELSE IF lo = hi THEN Match(text, rest, pos + lo, m)
  ELSE LET mid == (lo + hi) \div 2
           r == IF greedy THEN TryRep(text, rest, pos, m, greedy, ks, mid + 1, hi)
                ELSE TryRep(text, rest, pos, m, greedy, ks, lo, mid)
       IN IF r.ok THEN r
          ELSE IF greedy THEN TryRep(text, rest, pos, m, greedy, ks, lo, mid)
          ELSE TryRep(text, rest, pos, m, greedy, ks, mid + 1, hi)

\* the alternatives are tried in order; one that begins with a literal the text
\* does not have at pos is passed over
TryAlt(text, alts, rest, pos, m) ==
  IF alts = <<>> THEN NoMatch
  ELSE LET a == Head(alts)
       IN IF a # <<>> /\ a[1].t = "lit" /\ ~LitAt(text, pos, a[1].s, a[1].ci)
          THEN TryAlt(text, Tail(alts), rest, pos, m)
          ELSE LET r == Match(text, a \o rest, pos, m)
               IN IF r.ok THEN r ELSE TryAlt(text, Tail(alts), rest, pos, m)

\* the characters, in lower case, that a match of the items can begin with; any
\* is set when a match can be empty or begin with any character
RECURSIVE FirstOf(_)
FirstOf(items) ==
  IF items = <<>> THEN [any |-> TRUE, cs |-> {}]
  ELSE LET it == Head(items)
           rest == Tail(items)
       IN CASE it.t = "lit" ->
                 IF it.s = <<>> THEN FirstOf(rest)
                 ELSE [any |-> FALSE, cs |-> {Lower(it.s[1])}]
            [] it.t = "cls" ->
                 LET own == {Lower(x) : x \in it.c}
                     then == FirstOf(rest)
                 IN IF it.min >= 1 THEN [any |-> FALSE, cs |-> own]
                    ELSE [any |-> then.any, cs |-> own \cup then.cs]
            [] it.t = "alt" ->
                 LET fs == {FirstOf(it.alts[i] \o rest) : i \in DOMAIN it.alts}
                 IN [any |-> \E f \in fs : f.any, cs |-> UNION {f.cs : f \in fs}]
            [] it.t \in {"open", "close"} -> FirstOf(rest)
            [] it.t = "eos" -> [any |-> TRUE, cs |-> {}]

\* the match at the leftmost position of lo..hi that has one (searched by halves);
\* at is the set of the positions where a match can begin
RECURSIVE SearchRange(_, _, _, _, _)
SearchRange(text, items, at, lo, hi) ==
  IF \A p \in at : p < lo \/ p > hi THEN NoMatch
  ELSE IF lo = hi THEN Match(text, items, lo, [NoMatch EXCEPT !.start = lo])
  ELSE LET mid == (lo + hi) \div 2
           r == SearchRange(text, items, at, lo, mid)
       IN IF r.ok THEN r ELSE SearchRange(text, items, at, mid + 1, hi)

\* re.search
Search(text, items) ==
  LET f == FirstOf(items)
      at == IF f.any THEN 1..(Len(text) + 1)
            ELSE {p \in 1..Len(text) : Lower(text[p]) \in f.cs}
  IN SearchRange(text, items, at, 1, Len(text) + 1)

\* m.group(0), m.group(1)
Group0(text, r) == SubSeq(text, r.start, r.end - 1)
Group1(text, r) == SubSeq(text, r.g1s, r.g1e - 1)

(***************************************************************************)
(* Literals of bot.py                                                      *)
(***************************************************************************)
\* <LEAD_JSON>
TAG_OPEN ==
  <<"<","L","E","A","D","_","J","S","O","N",">">>

\* </LEAD_JSON>
TAG_CLOSE ==
  <<"<","/","L","E","A","D","_","J","S","O","N",">">>

\* reason
K_reason ==
  <<"r","e","a","s","o","n">>

\* email
K_email ==
  <<"e","m","a","i","l">>

\* phone
K_phone ==
  <<"p","h","o","n","e">>

\* name
K_name ==
  <<"n","a","m","e">>

\* availability
K_availability ==
  <<"a","v","a","i","l","a","b","i","l","i","t","y">>

\* stage
K_stage ==
  <<"s","t","a","g","e">>

\* collecting
COLLECTING ==
  <<"c","o","l","l","e","c","t","i","n","g">>

\* ready
READY ==
  <<"r","e","a","d","y">>

\* Quel est votre numéro de téléphone ?
Q_PHONE ==
  <<"Q","u","e","l"," ","e","s","t"," ","v","o","t","r","e"," ","n","u","m","é","r","o",
    " ","d","e"," ","t","é","l","é","p","h","o","n","e"," ","?">>

\* Quel est votre nom et prénom complets ?
Q_NAME ==
  <<"Q","u","e","l"," ","e","s","t"," ","v","o","t","r","e"," ","n","o","m"," ","e","t",
    " ","p","r","é","n","o","m"," ","c","o","m","p","l","e","t","s"," ","?">>

\* Quelle est votre adresse e-mail ?
Q_EMAIL ==
  <<"Q","u","e","l","l","e"," ","e","s","t"," ","v","o","t","r","e"," ","a","d","r","e",
    "s","s","e"," ","e","-","m","a","i","l"," ","?">>

\* Parfait, je transmets vos coordonnées. Vous serez rappelé rapidement.
ACK ==
  <<"P","a","r","f","a","i","t",","," ","j","e"," ","t","r","a","n","s","m","e","t","s",
    " ","v","o","s"," ","c","o","o","r","d","o","n","n","é","e","s","."," ","V","o","u",
    "s"," ","s","e","r","e","z"," ","r","a","p","p","e","l","é"," ","r","a","p","i","d",
    "e","m","e","n","t",".">>

(***************************************************************************)
(* Dictionaries: a dict is a sequence of <<key, value>> pairs in          *)
(* insertion order, as json.dumps writes it; keys and values are texts.   *)
(* A value that is a dict or None is a record [none, d].                  *)
(***************************************************************************)
None == [none |-> TRUE, d |-> <<>>]
Some(d) == [none |-> FALSE, d |-> d]

HasKey(d, k) == \E i \in DOMAIN d : d[i][1] = k

\* d.get(k, "")
Get(d, k) ==
  IF HasKey(d, k) THEN d[CHOOSE i \in DOMAIN d : d[i][1] = k][2] ELSE <<>>

\* d[k] = v
Set(d, k, v) ==
  IF HasKey(d, k)
  THEN [i \in DOMAIN d |-> IF d[i][1] = k THEN <<k, v>> ELSE d[i]]
  ELSE Append(d, <<k, v>>)

Keys(d) == {d[i][1] : i \in DOMAIN d}

\* d1 == d2 in Python: the same keys with the same values, in any order
DictEq(d1, d2) ==
  /\ Keys(d1) = Keys(d2)
  /\ \A k \in Keys(d1) : Get(d1, k) = Get(d2, k)

(***************************************************************************)
(* json.dumps(d, ensure_ascii=False) and json.loads                        *)
(***************************************************************************)
\* variant: characters are written as they are, unescaped
EscapeChar_Raw(c) == <<c>>

\* one character of a string, as json.dumps writes it
EscapeChar(c) ==
  CASE c = QUOTE -> <<BACKSLASH, QUOTE>>
    [] c = BACKSLASH -> <<BACKSLASH, BACKSLASH>>
    [] c = NL -> <<BACKSLASH, "n">>
    [] OTHER -> <<c>>

EscapeText(v) == Concat([i \in 1..Len(v) |-> EscapeChar(v[i])])

DumpsString(v) == <<QUOTE>> \o EscapeText(v) \o <<QUOTE>>

RECURSIVE DumpsItems(_)
DumpsItems(d) ==
  IF d = <<>> THEN <<>>
  ELSE DumpsString(d[1][1]) \o <<":", " ">> \o DumpsString(d[1][2])
       \o (IF Len(d) > 1 THEN <<",", " ">> ELSE <<>>) \o DumpsItems(Tail(d))

Dumps(d) == <<"{">> \o DumpsItems(d) \o <<"}">>

ParseFail == [ok |-> FALSE, v |-> <<>>, pos |-> 0]

SkipWs(text, pos) == pos + RunLen(text, Space, pos, -1)

\* the character an escape sequence \\e stands for, "" where it is not one
Unescape(e) ==
  CASE e = QUOTE -> QUOTE
    [] e = BACKSLASH -> BACKSLASH
    [] e = "/" -> "/"
    [] e = "n" -> NL
    [] OTHER -> ""

\* the characters of a JSON string from pos (just after the opening quote, or
\* after an escape sequence) up to its closing quote; acc is what has been read.
\* The scan runs to the next quote, backslash or newline.
RECURSIVE ParseChars(_, _, _)
ParseChars(text, pos, acc) ==
  LET f == pos + RunLen(text, Alphabet \ {QUOTE, BACKSLASH, NL}, pos, -1)
      plain == acc \o SubSeq(text, pos, f - 1)
  IN IF f > Len(text) \/ text[f] = NL THEN ParseFail
     ELSE IF text[f] = QUOTE THEN [ok |-> TRUE, v |-> plain, pos |-> f + 1]
     ELSE IF f + 1 > Len(text) \/ Unescape(text[f + 1]) = "" THEN ParseFail
     ELSE ParseChars(text, f + 2, Append(plain, Unescape(text[f + 1])))

ParseString(text, pos) ==
  IF pos <= Len(text) /\ text[pos] = QUOTE THEN ParseChars(text, pos + 1, <<>>)
  ELSE ParseFail

\* the members of an object from pos (the first key) to the closing brace
RECURSIVE ParseMembers(_, _, _)
ParseMembers(text, pos, d) ==
  LET k == ParseString(text, pos)
      p1 == SkipWs(text, k.pos)
      v == ParseString(text, SkipWs(text, p1 + 1))
      p2 == SkipWs(text, v.pos)
  IN IF ~k.ok \/ p1 > Len(text) \/ text[p1] # ":" THEN ParseFail
     ELSE IF ~v.ok \/ p2 > Len(text) THEN ParseFail
     ELSE IF text[p2] = "}" THEN [ok |-> TRUE, v |-> Set(d, k.v, v.v), pos |-> p2 + 1]
     ELSE IF text[p2] = "," THEN ParseMembers(text, SkipWs(text, p2 + 1), Set(d, k.v, v.v))
     ELSE ParseFail

\* json.loads of a text holding one object whose values are strings: the dict,
\* or None where json.loads raises
Loads(text) ==
  LET p0 == SkipWs(text, 1)
      p1 == SkipWs(text, p0 + 1)
      r == IF p1 <= Len(text) /\ text[p1] = "}"
           THEN [ok |-> TRUE, v |-> <<>>, pos |-> p1 + 1]
           ELSE ParseMembers(text, p1, <<>>)
  IN IF p0 > Len(text) \/ text[p0] # "{" THEN None
     ELSE IF r.ok /\ SkipWs(text, r.pos) = Len(text) + 1 THEN Some(r.v)
     ELSE None

(***************************************************************************)
(* bot.py: the patterns                                                    *)
(***************************************************************************)
\* .  (no DOTALL) and . under re.DOTALL
Dot == Alphabet \ {NL}
DotAll == Alphabet

\* r'[\w\.-]+@[\w\.-]+\.\w+'
EMAIL_RE ==
  <<Plus(WordChars \cup {".", "-"}), Lit(<<"@">>), Plus(WordChars \cup {".", "-"}),
    Lit(<<".">>), Plus(WordChars)>>

\* r'(\+?\d[\d \.\-]{6,})'
PHONE_RE ==
  <<GOpen, Opt({"+"}), One(Digits), Rep(Digits \cup {" ", ".", "-"}, 6, -1), GClose>>

\* r"(?:je m(?:'|e)appelle|nom\s*:?)\s*([A-Za-zÀ-ÖØ-öø-ÿ'\-\s]{2,80})", re.I
NAME_RE ==
  <<Alt(<< <<LitI(<<"j","e"," ","m">>), Alt(<< <<Lit(<<"'">>)>>, <<LitI(<<"e">>)>> >>),
             LitI(<<"a","p","p","e","l","l","e">>)>>,
           <<LitI(<<"n","o","m">>), Star(Space), Opt({":"})>> >>),
    Star(Space), GOpen,
    Rep(AsciiLetters \cup AccentLetters \cup {"'", "-"} \cup Space, 2, 80), GClose>>

\* r'(?:souhaite|veux|voudrais|besoin|motif|pour)\s*:?(.{5,140})', re.I
REASON_RE ==
  <<Alt(<<<<LitI(<<"s","o","u","h","a","i","t","e">>)>>,
         <<LitI(<<"v","e","u","x">>)>>,
         <<LitI(<<"v","o","u","d","r","a","i","s">>)>>,
         <<LitI(<<"b","e","s","o","i","n">>)>>,
         <<LitI(<<"m","o","t","i","f">>)>>,
         <<LitI(<<"p","o","u","r">>)>>>>),
    Star(Space), Opt({":"}), GOpen, Rep(Dot, 5, 140), GClose>>

\* r'(demain|matin|après-midi|soir|lundi|mardi|mercredi|jeudi|vendredi)[^\.!?]{0,60}', re.I
AVAILABILITY_RE ==
  <<Alt(<<<<LitI(<<"d","e","m","a","i","n">>)>>,
         <<LitI(<<"m","a","t","i","n">>)>>,
         <<LitI(<<"a","p","r","è","s","-","m","i","d","i">>)>>,
         <<LitI(<<"s","o","i","r">>)>>,
         <<LitI(<<"l","u","n","d","i">>)>>,
         <<LitI(<<"m","a","r","d","i">>)>>,
         <<LitI(<<"m","e","r","c","r","e","d","i">>)>>,
         <<LitI(<<"j","e","u","d","i">>)>>,
         <<LitI(<<"v","e","n","d","r","e","d","i">>)>>>>),
    Rep(Alphabet \ {".", "!", "?"}, 0, 60)>>

\* r"`?\s*<LEAD_JSON>\s*(\{.*?\})\s*</LEAD_JSON>\s*`?\s*$", re.DOTALL
LEAD_TAG_RE ==
  <<Opt({BACKTICK}), Star(Space), Lit(TAG_OPEN), Star(Space),
    GOpen, Lit(<<"{">>), Lazy(DotAll, 0, -1), Lit(<<"}">>), GClose,
    Star(Space), Lit(TAG_CLOSE), Star(Space), Opt({BACKTICK}), Star(Space), Eos>>

(***************************************************************************)
(* bot.py: extract_lead_json, _lead_from_history, rule_based_next_question *)
(***************************************************************************)
\* returns [message, lead]: the display text, and the dict or None
extract_lead_json(text) ==
  LET m == Search(text, LEAD_TAG_RE)
  IN IF text = <<>> THEN [message |-> text, lead |-> None]
     ELSE IF ~m.ok THEN [message |-> text, lead |-> None]
     ELSE [message |-> RStrip(Prefix(text, m.start - 1)),
           lead |-> Loads(Strip(Group1(text, m)))]

\* a turn of a history
Turn(role, content) == [role |-> role, content |-> content]

\* variant: turns of every role are read
IsUserTurn_AnyRole(m) == m.role \in {"user", "assistant"}

\* m.get("role") == "user"
IsUserTurn(m) == m.role = "user"

Contents(h) == [i \in 1..Len(h) |-> h[i].content]

\* " ".join([m["content"] for m in history if m.get("role") == "user"])
UserText(history) == Join(<<" ">>, Contents(SelectSeq(history, IsUserTurn)))

EmptyLead ==
  << <<K_reason, <<>>>>, <<K_email, <<>>>>, <<K_phone, <<>>>>, <<K_name, <<>>>>,
     <<K_availability, <<>>>>, <<K_stage, COLLECTING>> >>

\* if m: d[k] = v
SetIf(d, m, k, v) == IF m.ok THEN Set(d, k, v) ELSE d

\* if d["phone"] and d["name"] and d["email"]: d["stage"] = "ready"
StageOf(d) ==
  IF Get(d, K_phone) # <<>> /\ Get(d, K_name) # <<>> /\ Get(d, K_email) # <<>>
  THEN Set(d, K_stage, READY)
  ELSE d

_lead_from_history(history) ==
  LET user_text == UserText(history)
      me == Search(user_text, EMAIL_RE)
      mp == Search(user_text, PHONE_RE)
      mn == Search(user_text, NAME_RE)
      mr == Search(user_text, REASON_RE)
      ma == Search(user_text, AVAILABILITY_RE)
      d1 == SetIf(EmptyLead, me, K_email, Group0(user_text, me))
      d2 == SetIf(d1, mp, K_phone, Strip(Group1(user_text, mp)))
      d3 == SetIf(d2, mn, K_name, Strip(Group1(user_text, mn)))
      d4 == SetIf(d3, mr, K_reason, Strip(Group1(user_text, mr)))
      d5 == SetIf(d4, ma, K_availability, Strip(Group0(user_text, ma)))
  IN IF user_text = <<>> THEN EmptyLead ELSE StageOf(d5)

\* variant: the name is asked before the phone
NextQuestion_NameFirst(lead) ==
  IF Get(lead, K_name) = <<>> THEN [msg |-> Q_NAME, lead |-> lead]
  ELSE IF Get(lead, K_phone) = <<>> THEN [msg |-> Q_PHONE, lead |-> lead]
  ELSE IF Get(lead, K_email) = <<>> THEN [msg |-> Q_EMAIL, lead |-> lead]
  ELSE [msg |-> ACK, lead |-> Set(lead, K_stage, READY)]

\* the question or acknowledgment, and the lead the tag carries
NextQuestion(lead) ==
  IF Get(lead, K_phone) = <<>> THEN [msg |-> Q_PHONE, lead |-> lead]
  ELSE IF Get(lead, K_name) = <<>> THEN [msg |-> Q_NAME, lead |-> lead]
  ELSE IF Get(lead, K_email) = <<>> THEN [msg |-> Q_EMAIL, lead |-> lead]
  ELSE [msg |-> ACK, lead |-> Set(lead, K_stage, READY)]

rule_based_next_question(pack, history) ==
  LET q == NextQuestion(_lead_from_history(history))
  IN q.msg \o <<NL>> \o TAG_OPEN \o Dumps(q.lead) \o TAG_CLOSE

(***************************************************************************)
(* app.py: the chat endpoint's text handling                               *)
(***************************************************************************)
\* r"<LEAD_JSON>.*?</LEAD_JSON>\s*$", re.DOTALL
RESPONSE_TAG_RE ==
  <<Lit(TAG_OPEN), Lazy(DotAll, 0, -1), Lit(TAG_CLOSE), Star(Space), Eos>>

\* re.sub(RESPONSE_TAG_RE, "", text): the pattern ends at the end of the text, so
\* at most one match is replaced
SubResponseTag(text) ==
  LET m == Search(text, RESPONSE_TAG_RE)
  IN IF m.ok THEN Prefix(text, m.start - 1) \o SubSeq(text, m.end, Len(text)) ELSE text

\* response_text of the endpoint from the message extract_lead_json returned
ResponseText(message) == RStrip(SubResponseTag(message))

(***************************************************************************)
(* Inputs: the user messages, the texts the model may generate, the       *)
(* addresses a lead may be sent to                                         *)
(***************************************************************************)
\* bonjour
M_HELLO ==
  <<"b","o","n","j","o","u","r">>

\* 0601020304
M_PHONE ==
  <<"0","6","0","1","0","2","0","3","0","4">>

\* Je m'appelle Jean Dupont
M_NAME ==
  <<"J","e"," ","m","'","a","p","p","e","l","l","e"," ","J","e","a","n"," ","D","u","p",
    "o","n","t">>

\* jean@ex.com
M_EMAIL ==
  <<"j","e","a","n","@","e","x",".","c","o","m">>

\* nom: Bob, 0601020304, bob@ex.com
M_ALL ==
  <<"n","o","m",":"," ","B","o","b",","," ","0","6","0","1","0","2","0","3","0","4",",",
    " ","b","o","b","@","e","x",".","c","o","m">>

\* pour {x}</LEAD_JSON> "ok" \\fin
M_REASON ==
  <<"p","o","u","r"," ","{","x","}","<","/","L","E","A","D","_","J","S","O","N",">"," ",
    QUOTE,"o","k",QUOTE," ",BACKSLASH,"f","i","n">>

\* Bonjour !
O_PLAIN ==
  <<"B","o","n","j","o","u","r"," ","!">>

\* Merci.\n<LEAD_JSON>{"phone":"","name":"","email":"","reason":"","availability":"","stage":"collecting"}</LEAD_JSON>
O_COLLECTING ==
  <<"M","e","r","c","i",".",NL,"<","L","E","A","D","_","J","S","O","N",">","{",QUOTE,"p",
    "h","o","n","e",QUOTE,":",QUOTE,QUOTE,",",QUOTE,"n","a","m","e",QUOTE,":",QUOTE,
    QUOTE,",",QUOTE,"e","m","a","i","l",QUOTE,":",QUOTE,QUOTE,",",QUOTE,"r","e","a","s",
    "o","n",QUOTE,":",QUOTE,QUOTE,",",QUOTE,"a","v","a","i","l","a","b","i","l","i","t",
    "y",QUOTE,":",QUOTE,QUOTE,",",QUOTE,"s","t","a","g","e",QUOTE,":",QUOTE,"c","o","l",
    "l","e","c","t","i","n","g",QUOTE,"}","<","/","L","E","A","D","_","J","S","O","N",
    ">">>

\* Parfait.\n<LEAD_JSON>{"phone":"0601020304","name":"Bob","email":"bob@ex.com","stage":"ready"}</LEAD_JSON>
O_READY ==
  <<"P","a","r","f","a","i","t",".",NL,"<","L","E","A","D","_","J","S","O","N",">","{",
    QUOTE,"p","h","o","n","e",QUOTE,":",QUOTE,"0","6","0","1","0","2","0","3","0","4",
    QUOTE,",",QUOTE,"n","a","m","e",QUOTE,":",QUOTE,"B","o","b",QUOTE,",",QUOTE,"e","m",
    "a","i","l",QUOTE,":",QUOTE,"b","o","b","@","e","x",".","c","o","m",QUOTE,",",QUOTE,
    "s","t","a","g","e",QUOTE,":",QUOTE,"r","e","a","d","y",QUOTE,"}","<","/","L","E",
    "A","D","_","J","S","O","N",">">>

\* Merci.\n<LEAD_JSON>{"phone":"","name":"Bob","email":"","stage":"ready"}</LEAD_JSON>
O_READY_EMPTY ==
  <<"M","e","r","c","i",".",NL,"<","L","E","A","D","_","J","S","O","N",">","{",QUOTE,"p",
    "h","o","n","e",QUOTE,":",QUOTE,QUOTE,",",QUOTE,"n","a","m","e",QUOTE,":",QUOTE,"B",
    "o","b",QUOTE,",",QUOTE,"e","m","a","i","l",QUOTE,":",QUOTE,QUOTE,",",QUOTE,"s","t",
    "a","g","e",QUOTE,":",QUOTE,"r","e","a","d","y",QUOTE,"}","<","/","L","E","A","D",
    "_","J","S","O","N",">">>

\* Merci.\n<LEAD_JSON>{"stage":"collecting"}</LEAD_JSON>\nVotre nom ?
O_TAG_MIDDLE ==
  <<"M","e","r","c","i",".",NL,"<","L","E","A","D","_","J","S","O","N",">","{",QUOTE,"s",
    "t","a","g","e",QUOTE,":",QUOTE,"c","o","l","l","e","c","t","i","n","g",QUOTE,"}",
    "<","/","L","E","A","D","_","J","S","O","N",">",NL,"V","o","t","r","e"," ","n","o",
    "m"," ","?">>

\* <LEAD_JSON>{"phone":"","name":"","email":"","stage":"collecting"}</LEAD_JSON>
O_TAG_ONLY ==
  <<"<","L","E","A","D","_","J","S","O","N",">","{",QUOTE,"p","h","o","n","e",QUOTE,":",
    QUOTE,QUOTE,",",QUOTE,"n","a","m","e",QUOTE,":",QUOTE,QUOTE,",",QUOTE,"e","m","a",
    "i","l",QUOTE,":",QUOTE,QUOTE,",",QUOTE,"s","t","a","g","e",QUOTE,":",QUOTE,"c","o",
    "l","l","e","c","t","i","n","g",QUOTE,"}","<","/","L","E","A","D","_","J","S","O",
    "N",">">>

\* Merci.\n<LEAD_JSON>{stage: ready}</LEAD_JSON>
O_TAG_UNPARSABLE ==
  <<"M","e","r","c","i",".",NL,"<","L","E","A","D","_","J","S","O","N",">","{","s","t",
    "a","g","e",":"," ","r","e","a","d","y","}","<","/","L","E","A","D","_","J","S","O",
    "N",">">>

\*  \n
O_BLANK ==
  <<" ",NL>>

\* Merci.\n<LEAD_JSON>{"stage":"collecting"}</LEAD_JSON>\nok\n<LEAD_JSON>{"stage":"ready"}</LEAD_JSON>
O_TAG_TWICE ==
  <<"M","e","r","c","i",".",NL,"<","L","E","A","D","_","J","S","O","N",">","{",QUOTE,"s",
    "t","a","g","e",QUOTE,":",QUOTE,"c","o","l","l","e","c","t","i","n","g",QUOTE,"}",
    "<","/","L","E","A","D","_","J","S","O","N",">",NL,"o","k",NL,"<","L","E","A","D",
    "_","J","S","O","N",">","{",QUOTE,"s","t","a","g","e",QUOTE,":",QUOTE,"r","e","a",
    "d","y",QUOTE,"}","<","/","L","E","A","D","_","J","S","O","N",">">>

\* Merci. `<LEAD_JSON>{"stage":"collecting"}</LEAD_JSON>`\n
O_TAG_BACKTICK ==
  <<"M","e","r","c","i","."," ",BACKTICK,"<","L","E","A","D","_","J","S","O","N",">","{",
    QUOTE,"s","t","a","g","e",QUOTE,":",QUOTE,"c","o","l","l","e","c","t","i","n","g",
    QUOTE,"}","<","/","L","E","A","D","_","J","S","O","N",">",BACKTICK,NL>>

\* Merci.\n<LEAD_JSON>oops</LEAD_JSON>
O_TAG_NOBRACE ==
  <<"M","e","r","c","i",".",NL,"<","L","E","A","D","_","J","S","O","N",">","o","o","p",
    "s","<","/","L","E","A","D","_","J","S","O","N",">">>

\* p@x.fr
ADDR_PAYLOAD ==
  <<"p","@","x",".","f","r">>

\* d@x.fr
ADDR_DB ==
  <<"d","@","x",".","f","r">>

\* b@x.fr
ADDR_BOT ==
  <<"b","@","x",".","f","r">>

\* e@x.fr
ADDR_ENV ==
  <<"e","@","x",".","f","r">>

\* Merci.\n<LEAD_JSON>{"name":"Bob","email":"bob@ex.com","phone":"0601020304","stage":"collecting"}</LEAD_JSON>
O_FULL_COLLECTING ==
  <<"M","e","r","c","i",".",NL,"<","L","E","A","D","_","J","S","O","N",">","{",QUOTE,"n",
    "a","m","e",QUOTE,":",QUOTE,"B","o","b",QUOTE,",",QUOTE,"e","m","a","i","l",QUOTE,
    ":",QUOTE,"b","o","b","@","e","x",".","c","o","m",QUOTE,",",QUOTE,"p","h","o","n",
    "e",QUOTE,":",QUOTE,"0","6","0","1","0","2","0","3","0","4",QUOTE,",",QUOTE,"s","t",
    "a","g","e",QUOTE,":",QUOTE,"c","o","l","l","e","c","t","i","n","g",QUOTE,"}","<",
    "/","L","E","A","D","_","J","S","O","N",">">>

\* payload["message"] of a request, after .strip(); <<>> is the empty message
UserMessages == {M_HELLO, M_ALL}
\* choices[0].message.content of a successful completion
Completions ==
  {O_PLAIN, O_READY, O_READY_EMPTY, O_TAG_MIDDLE, O_TAG_ONLY, O_BLANK}
\* an attempt that yields no content: requests.post raises; the status is not
\* a success; r.json() raises; "choices" is an empty list; "content" is null
AttemptFailures == {"raise", "status", "badjson", "nochoices", "nullcontent"}
\* payload["conv_id"]; <<>> (none given) selects the cookie-backed session
ConvIds == {<<"c","1">>}

\* "Dites-moi ce dont vous avez besoin" (the emoji that ends it is left out)
EMPTY_MESSAGE_REPLY ==
  <<"D","i","t","e","s","-","m","o","i"," ","c","e"," ","d","o","n","t"," ","v","o","u",
    "s"," ","a","v","e","z"," ","b","e","s","o","i","n">>

(***************************************************************************)
(* State                                                                   *)
(***************************************************************************)
VARIABLES
  apiKey,    \* TOGETHER_API_KEY is set (bot.py, read once at import)
  CONVS,     \* app.py CONVS: conv_id -> history, for the conv_ids it holds
  session,   \* the client's session entry "conv_<bot>": its history ([] if unset)
  th,        \* per request thread: position in the handler and its locals
  reply,     \* per request thread: the response to its current request, once returned
  outbox,    \* the calls of send_lead_email, in order (recipient and lead)
  nreq,      \* number of requests received
  hist,      \* argument of the functions applied on their own
  fn         \* the last such application and its result

vars == <<apiKey, CONVS, session, th, reply, outbox, nreq, hist, fn>>

\* bound: requests received in a run of Spec
MaxRequests == 1
\* the request threads; Spec runs one request at a time, on the first
Threads == {1, 2}
MainThreads == {1}

\* variant: a fifth, longer delay
backoffs_Five == <<6, 12, 24, 48, 96>>

\* backoffs = [0.6, 1.2, 2.4, 4.8], in tenths of a second
backoffs == <<6, 12, 24, 48>>

\* the stage of a response that carries none (JSON null, or no "stage" key)
NoStage == <<"null">>

Idle ==
  [pc |-> "idle", conv_id |-> <<>>, user_input |-> <<>>, pack |-> "", buyer |-> <<>>,
   history |-> <<>>, calls |-> 0, last |-> "", log |-> <<>>, sleeps |-> <<>>,
   full_text |-> <<>>, sources |-> <<>>]

NoReply ==
  [n |-> 0, response |-> <<>>, stage |-> NoStage, lead |-> None, via |-> "none",
   full_text |-> <<>>, mail |-> "none"]

NoFn == [op |-> "none", pack |-> "", text |-> <<>>, message |-> <<>>, lead |-> None]

\* BOTS[...]["pack"] of two of the demo bots a public_id can resolve to
Packs == {"avocat", "immo"}
\* the pack of BOTS["avocat-001"], the bot an unknown public_id resolves to
DefaultPack == "avocat"

\* CONVS.get(conv_id, [])
ConvsGet(c) == IF c \in DOMAIN CONVS THEN CONVS[c] ELSE <<>>

\* CONVS[conv_id] = history
ConvsPut(c, h) == [k \in DOMAIN CONVS \cup {c} |-> IF k = c THEN h ELSE CONVS[k]]

\* variant: the window keeps the last eight turns
LastSix_Eight(h) == IF Len(h) <= 8 THEN h ELSE SubSeq(h, Len(h) - 7, Len(h))

\* history[-6:]
LastSix(h) == IF Len(h) <= 6 THEN h ELSE SubSeq(h, Len(h) - 5, Len(h))

\* variant: DEFAULT_LEAD_EMAIL is preferred to the addresses of the bots
ResolveBuyer_EnvFirst(payloadBuyer, dbBuyer, botBuyer, envBuyer) ==
  IF payloadBuyer # <<>> THEN payloadBuyer
  ELSE IF envBuyer # <<>> THEN envBuyer
  ELSE IF dbBuyer # <<>> THEN dbBuyer
  ELSE botBuyer

\* buyer_email_ctx: the first non-empty of the request's buyer_email, the stored
\* bot's, the in-memory bot's and DEFAULT_LEAD_EMAIL
ResolveBuyer(payloadBuyer, dbBuyer, botBuyer, envBuyer) ==
  IF payloadBuyer # <<>> THEN payloadBuyer
  ELSE IF dbBuyer # <<>> THEN dbBuyer
  ELSE IF botBuyer # <<>> THEN botBuyer
  ELSE envBuyer

Init ==
  /\ apiKey \in BOOLEAN
  /\ CONVS = <<>>
  /\ session = <<>>
  /\ th = [t \in Threads |-> Idle]
  /\ reply = [t \in Threads |-> NoReply]
  /\ outbox = <<>>
  /\ nreq = 0
  /\ hist = <<>>
  /\ fn = NoFn

(***************************************************************************)
(* app.py: /api/bettybot                                                   *)
(***************************************************************************)
\* a request whose message is empty: answered at once, nothing else is done
EmptyMessage(t) ==
  /\ th[t].pc = "idle"
  /\ nreq' = nreq + 1
  /\ reply' = [reply EXCEPT ![t] =
        [NoReply EXCEPT !.n = nreq + 1, !.response = EMPTY_MESSAGE_REPLY]]
  /\ UNCHANGED <<apiKey, CONVS, session, th, outbox, hist, fn>>

\* a request with a message: the bot is resolved, the history window read, the
\* recipient resolved from the four places it can come from (kept in sources, in
\* the order the handler reads them), and call_llm_with_history entered
ReceiveFor(t, message, conv_id, pack, payloadBuyer, dbBuyer, botBuyer, envBuyer) ==
  /\ th[t].pc = "idle"
  /\ message # <<>>
  /\ nreq' = nreq + 1
  /\ th' = [th EXCEPT ![t] =
        [Idle EXCEPT !.pc = "llm", !.conv_id = conv_id, !.user_input = message,
                     !.pack = pack,
                     !.sources = <<payloadBuyer, dbBuyer, botBuyer, envBuyer>>,
                     !.buyer = ResolveBuyer(payloadBuyer, dbBuyer, botBuyer, envBuyer),
                     !.history = LastSix(IF conv_id # <<>> THEN ConvsGet(conv_id)
                                         ELSE session)]]
  /\ reply' = [reply EXCEPT ![t] = NoReply]
  /\ UNCHANGED <<apiKey, CONVS, session, outbox, hist, fn>>

\* the same when only the request can give a recipient (buyer is its buyer_email):
\* no bot is stored, the demo bots carry no address, DEFAULT_LEAD_EMAIL is unset
Receive(t, message, conv_id, pack, buyer) ==
  ReceiveFor(t, message, conv_id, pack, buyer, <<>>, <<>>, <<>>)

(***************************************************************************)
(* bot.py: call_llm_with_history                                           *)
(***************************************************************************)
AttemptOutcomes ==
  {[kind |-> k, content |-> <<>>] : k \in AttemptFailures}
    \cup {[kind |-> "ok", content |-> c] : c \in Completions}

\* content of one attempt: the stripped text, empty when the attempt failed
AttemptContent(o) == IF o.kind = "ok" THEN Strip(o.content) ELSE <<>>

\* the attempts that raise inside the try block: requests.post itself, r.json(),
\* [][0] on an empty "choices" (IndexError), None.strip() (AttributeError)
AttemptRaises(o) == o.kind \in {"raise", "badjson", "nochoices", "nullcontent"}

\* variant: only the exception of requests.post is caught
Caught_OnlyRequestErrors(o) == o.kind = "raise"

\* except Exception as e: every exception an attempt raises is caught
Caught(o) == TRUE

\* variant: without a credential one call is still made before returning ""
LlmNoKey_OneCall(t) ==
  /\ th[t].pc = "llm"
  /\ ~apiKey
  /\ th' = [th EXCEPT ![t].pc = "llm_done", ![t].full_text = <<>>, ![t].calls = 1]
  /\ UNCHANGED <<apiKey, CONVS, session, reply, outbox, nreq, hist, fn>>

\* if not TOGETHER_API_KEY: return ""
LlmNoKey(t) ==
  /\ th[t].pc = "llm"
  /\ ~apiKey
  /\ th' = [th EXCEPT ![t].pc = "llm_done", ![t].full_text = <<>>]
  /\ UNCHANGED <<apiKey, CONVS, session, reply, outbox, nreq, hist, fn>>

\* one iteration of `for wait in backoffs`: the HTTP call, then either the return
\* of its content or the sleep; after the last sleep the function returns ""
LlmAttempt(t, o) ==
  LET k == th[t].calls + 1
      content == AttemptContent(o)
      me == [th[t] EXCEPT !.calls = k, !.last = o.kind, !.log = Append(@, content)]
  IN /\ th[t].pc = "llm"
     /\ apiKey
     /\ k <= Len(backoffs)
     /\ th' = [th EXCEPT ![t] =
           IF AttemptRaises(o) /\ ~Caught(o)
           THEN [me EXCEPT !.pc = "raised"]
           ELSE IF content # <<>>
           THEN [me EXCEPT !.full_text = content, !.pc = "llm_done"]
           ELSE [me EXCEPT !.sleeps = Append(@, backoffs[k]),
                           !.pc = IF k = Len(backoffs) THEN "llm_done" ELSE "llm"]]
     /\ UNCHANGED <<apiKey, CONVS, session, reply, outbox, nreq, hist, fn>>

(***************************************************************************)
(* app.py: /api/bettybot, from the return of call_llm_with_history on      *)
(***************************************************************************)
\* if not lead or not isinstance(lead, dict): None and {} are both falsy
Falsy(lead) == lead.none \/ lead.d = <<>>

\* bool(lead.get(k))
Truthy(d, k) == Get(d, k) # <<>>

\* (lead or {}).get("stage")
StageField(d) == IF HasKey(d, K_stage) THEN Get(d, K_stage) ELSE NoStage

\* the record handed to send_lead_email
MailLead(d) ==
  << <<K_reason, Get(d, K_reason)>>, <<K_name, Get(d, K_name)>>,
     <<K_email, Get(d, K_email)>>, <<K_phone, Get(d, K_phone)>>,
     <<K_availability, Get(d, K_availability)>>, <<K_stage, READY>> >>

\* what send_lead_email does with a call: the Mailjet keys are missing (nothing is
\* posted); the post succeeds; it is refused; it raises (caught in mail.py)
MailOutcomes == {"noconfig", "ok", "ko", "exc"}

\* the text the turn is built from: the model's, else the fallback's
FullText(me) ==
  IF me.full_text # <<>> THEN me.full_text
  ELSE rule_based_next_question(me.pack,
         Append(me.history, Turn("user", me.user_input)))

\* variant: the two turns are appended to the turns stored at the time of the write
NewHistory_Reread(me, response_text) ==
  (IF me.conv_id # <<>> THEN ConvsGet(me.conv_id) ELSE session)
    \o <<Turn("user", me.user_input), Turn("assistant", response_text)>>

\* the history written back: the window read, plus the two turns of this request
NewHistory(me, response_text) ==
  me.history \o <<Turn("user", me.user_input), Turn("assistant", response_text)>>

\* the turn's Lead: the tag's, else the heuristic one
TurnLead(extracted, history, user_input) ==
  IF Falsy(extracted) THEN _lead_from_history(Append(history, Turn("user", user_input)))
  ELSE extracted.d

\* each intermediate value is bound once, in the order the handler computes it
Finish(t) ==
  \E me \in {th[t]} :
  /\ me.pc = "llm_done"
  /\ \E full_text \in {FullText(me)} :
     \E ex \in {extract_lead_json(full_text)} :
     \E response_text \in {ResponseText(ex.message)} :
     \E history \in {NewHistory(me, response_text)} :
     \E lead \in {TurnLead(ex.lead, history, me.user_input)} :
     \E stage_ok \in {Truthy(lead, K_phone) /\ Truthy(lead, K_name) /\ Truthy(lead, K_email)} :
     \E send \in {stage_ok /\ me.buyer # <<>>} :
       /\ IF me.conv_id # <<>>
          THEN CONVS' = ConvsPut(me.conv_id, history) /\ UNCHANGED session
          ELSE session' = history /\ UNCHANGED CONVS
       /\ outbox' = IF send
                    THEN Append(outbox, [key |-> me.conv_id, to |-> me.buyer,
                                         lead |-> MailLead(lead)])
                    ELSE outbox
       /\ \E mail \in IF send THEN MailOutcomes ELSE {"none"} :
            reply' = [reply EXCEPT ![t] =
              [n |-> nreq, response |-> response_text,
               stage |-> StageField(lead), lead |-> Some(lead),
               via |-> IF me.full_text # <<>> THEN "llm" ELSE "fallback",
               full_text |-> full_text, mail |-> mail]]
       /\ th' = [th EXCEPT ![t] = Idle]
       /\ UNCHANGED <<apiKey, nreq, hist, fn>>

(***************************************************************************)
(* app.py: /api/reset                                                      *)
(***************************************************************************)
\* if key and key in CONVS: CONVS.pop(key, None)
Reset(key) ==
  /\ key \in DOMAIN CONVS
  /\ CONVS' = [k \in DOMAIN CONVS \ {key} |-> CONVS[k]]
  /\ UNCHANGED <<apiKey, session, th, reply, outbox, nreq, hist, fn>>

Buyers == {<<>>, ADDR_PAYLOAD}

\* a run of Spec receives at most MaxRequests requests, one at a time
Next ==
  \E t \in MainThreads :
    \/ nreq < MaxRequests /\ EmptyMessage(t)
    \/ /\ nreq < MaxRequests
       /\ \E m \in UserMessages, c \in ConvIds \cup {<<>>}, b \in Buyers :
            Receive(t, m, c, DefaultPack, b)
    \/ LlmNoKey(t)
    \/ \E o \in AttemptOutcomes : LlmAttempt(t, o)
    \/ Finish(t)
    \/ \E key \in ConvIds : Reset(key)

Spec == Init /\ [][Next]_vars

(***************************************************************************)
(* bot.py's functions applied on their own: SpecFn builds a history turn   *)
(* by turn and applies a function to it; fn holds the application and its  *)
(* result until the next turn is added. extract_lead_json reads no         *)
(* history: it is applied to each generated text before one is built.      *)
(***************************************************************************)
\* bound: turns of a history in a run of SpecFn
MaxHist == 3

\* the turns a history is built from
FnTurns ==
  {Turn("user", m) : m \in {M_PHONE, M_NAME, M_EMAIL, M_ALL, M_REASON}}
    \cup {Turn("assistant", M_ALL)}

\* the texts extract_lead_json is applied to
ExtractTexts ==
  Completions
    \cup {O_COLLECTING, O_TAG_UNPARSABLE, O_TAG_TWICE, O_TAG_BACKTICK, O_TAG_NOBRACE, <<>>}

InitFn == Init /\ ~apiKey

AddTurn(turn) ==
  /\ Len(hist) < MaxHist
  /\ hist' = Append(hist, turn)
  /\ fn' = NoFn
  /\ UNCHANGED <<apiKey, CONVS, session, th, reply, outbox, nreq>>

\* _lead_from_history(hist)
ApplyHeuristic ==
  /\ fn.op = "none"
  /\ fn' = [NoFn EXCEPT !.op = "heuristic", !.lead = Some(_lead_from_history(hist))]
  /\ UNCHANGED <<apiKey, CONVS, session, th, reply, outbox, nreq, hist>>

\* rule_based_next_question(pack, hist)
ApplyFallback(pack) ==
  /\ fn.op = "none"
  /\ fn' = [NoFn EXCEPT !.op = "fallback", !.pack = pack,
                        !.message = rule_based_next_question(pack, hist)]
  /\ UNCHANGED <<apiKey, CONVS, session, th, reply, outbox, nreq, hist>>

\* extract_lead_json(text)
ApplyExtract(text) ==
  /\ fn.op = "none" /\ hist = <<>>
  /\ \E ex \in {extract_lead_json(text)} :
       fn' = [NoFn EXCEPT !.op = "extract", !.text = text,
                          !.message = ex.message, !.lead = ex.lead]
  /\ UNCHANGED <<apiKey, CONVS, session, th, reply, outbox, nreq, hist>>

\* extract_lead_json(rule_based_next_question(pack, hist))
ApplyRoundTrip(pack) ==
  /\ fn.op = "none"
  /\ \E text \in {rule_based_next_question(pack, hist)} :
     \E ex \in {extract_lead_json(text)} :
       fn' = [NoFn EXCEPT !.op = "roundtrip", !.pack = pack, !.text = text,
                          !.message = ex.message, !.lead = ex.lead]
  /\ UNCHANGED <<apiKey, CONVS, session, th, reply, outbox, nreq, hist>>

NextFn ==
  \/ \E turn \in FnTurns : AddTurn(turn)
  \/ ApplyHeuristic
  \/ \E p \in Packs : ApplyFallback(p)
  \/ \E text \in ExtractTexts : ApplyExtract(text)
  \/ \E p \in Packs : ApplyRoundTrip(p)

SpecFn == InitFn /\ [][NextFn]_vars

(***************************************************************************)
(* One conversation over several requests: SpecConv runs the chat endpoint *)
(* without a credential (every reply is the fallback's), one request at a  *)
(* time under one conv_id, with /api/reset at any moment. No recipient is  *)
(* resolved, so no mail is sent.                                           *)
(***************************************************************************)
\* bound: requests received in a run of SpecConv
MaxConvRequests == 5

\* the messages of the conversation
ConvMessages == {M_HELLO, M_ALL}

InitConv == Init /\ ~apiKey

NextConv ==
  \E t \in MainThreads :
    \/ /\ nreq < MaxConvRequests
       /\ \E m \in ConvMessages, c \in ConvIds : Receive(t, m, c, DefaultPack, <<>>)
    \/ LlmNoKey(t)
    \/ Finish(t)
    \/ \E key \in ConvIds : Reset(key)

SpecConv == InitConv /\ [][NextConv]_vars

(***************************************************************************)
(* Requests in parallel: SpecRace runs the chat endpoint on two request    *)
(* threads under one conv_id (the development server handles each request  *)
(* on its own thread; CONVS is shared and no lock is taken), without a     *)
(* credential, with a recipient given by every request. The key is never   *)
(* reset.                                                                  *)
(***************************************************************************)
\* bound: requests received in a run of SpecRace
MaxRaceRequests == 2

\* the messages of the requests
RaceMessages == {M_HELLO, M_ALL}

InitRace == Init /\ ~apiKey

NextRace ==
  \E t \in Threads :
    \/ /\ nreq < MaxRaceRequests
       /\ \E m \in RaceMessages, c \in ConvIds : Receive(t, m, c, DefaultPack, ADDR_PAYLOAD)
    \/ LlmNoKey(t)
    \/ Finish(t)

SpecRace == InitRace /\ [][NextRace]_vars

(***************************************************************************)
(* One turn with a credential and every source of the recipient: SpecTurn  *)
(* runs requests whose completion succeeds at the first attempt, with the  *)
(* recipient given by the request, the stored bot, the in-memory bot or    *)
(* DEFAULT_LEAD_EMAIL, or by none of them.                                 *)
(***************************************************************************)
\* the messages of the requests
TurnMessages == {M_PHONE, M_ALL}

\* the completions: no tag; a tag whose body is not JSON; a tag that carries
\* the three contact fields and the stage "collecting"
TurnCompletions == {O_PLAIN, O_TAG_UNPARSABLE, O_FULL_COLLECTING}

\* buyer_email of the request, of the stored bot, of the in-memory bot, and
\* DEFAULT_LEAD_EMAIL: each one absent (<<>>) or present
TurnSources ==
  { <<<<>>, <<>>, <<>>, <<>>>>,
    <<ADDR_PAYLOAD, <<>>, <<>>, <<>>>>,
    <<ADDR_PAYLOAD, ADDR_DB, ADDR_BOT, ADDR_ENV>>,
    <<<<>>, ADDR_DB, ADDR_BOT, ADDR_ENV>>,
    <<<<>>, <<>>, ADDR_BOT, ADDR_ENV>>,
    <<<<>>, <<>>, <<>>, ADDR_ENV>> }

InitTurn == Init /\ apiKey

NextTurn ==
  \E t \in MainThreads :
    \/ nreq < MaxRequests /\ EmptyMessage(t)
    \/ /\ nreq < MaxRequests
       /\ \E m \in TurnMessages, c \in ConvIds, b \in TurnSources :
            ReceiveFor(t, m, c, DefaultPack, b[1], b[2], b[3], b[4])
    \/ \E c \in TurnCompletions : LlmAttempt(t, [kind |-> "ok", content |-> c])
    \/ Finish(t)

SpecTurn == InitTurn /\ [][NextTurn]_vars

(***************************************************************************)
(* Properties of the chat endpoint, checked under Spec                     *)
(***************************************************************************)
\* sub occurs in text
Contains(text, sub) ==
  \E i \in 1..(Len(text) - Len(sub) + 1) : SubSeq(text, i, i + Len(sub) - 1) = sub

\* a response has been returned to the request of thread t
Replied(t) == reply[t].n > 0

\* C1: every Lead the chat endpoint reports in a turn satisfies: stage "ready"
\* implies that phone, name and email are all non-empty.
C1_ReadyImpliesFields ==
  \A t \in Threads :
    (Replied(t) /\ ~reply[t].lead.none /\ reply[t].stage = READY)
      => /\ Truthy(reply[t].lead.d, K_phone)
         /\ Truthy(reply[t].lead.d, K_name)
         /\ Truthy(reply[t].lead.d, K_email)

\* C2: the response text of a chat request contains no <LEAD_JSON>...</LEAD_JSON>
\* tag, wherever the tag sits in the generated text.
C2_NoTagInResponse ==
  \A t \in Threads :
    Replied(t) => /\ ~Contains(reply[t].response, TAG_OPEN)
                  /\ ~Contains(reply[t].response, TAG_CLOSE)

\* C3: the chat endpoint never raises, and every response text it returns is
\* non-empty, whatever the outcome of the LLM call and of the email dispatch.
C3_NonEmptyResponse ==
  \A t \in Threads :
    /\ th[t].pc # "raised"
    /\ Replied(t) => Inked(reply[t].response) # {}

(***************************************************************************)
(* Properties of call_llm_with_history, checked under Spec                 *)
(***************************************************************************)
\* the total of a sequence of delays
RECURSIVE Sum(_)
Sum(q) == IF q = <<>> THEN 0 ELSE Head(q) + Sum(Tail(q))

\* the attempts of the call in progress on thread t that gave no content
FailedAttempts(t) == {i \in DOMAIN th[t].log : th[t].log[i] = <<>>}

\* call_llm_with_history has returned to the handler on thread t
Returned(t) == th[t].pc = "llm_done"

\* C8: with a credential, a call makes at most 4 attempts; an attempt that raises,
\* gets a non-success status or yields empty content fails; the call returns the
\* content of the first attempt that succeeds, and makes no attempt after it; it
\* returns "" if every attempt fails; no exception reaches the caller.
C8_Attempts ==
  \A t \in Threads :
    LET me == th[t] IN
    /\ me.pc # "raised"
    /\ me.calls = Len(me.log) /\ me.calls <= 4
    /\ (me.calls > 0 /\ (me.last \in AttemptFailures \/ Inked(me.full_text) = {}))
         => me.log[me.calls] = <<>>
    /\ me.pc = "llm" => FailedAttempts(t) = DOMAIN me.log
    /\ (apiKey /\ Returned(t)) =>
         /\ me.calls >= 1
         /\ 1..(me.calls - 1) \subseteq FailedAttempts(t)
         /\ me.full_text = me.log[me.calls]
         /\ me.full_text = <<>> => me.calls = 4

\* a call returned the content of its third attempt, after two failed ones
C8_Witness ==
  \E t \in Threads :
    /\ apiKey /\ Returned(t) /\ th[t].calls = 3
    /\ th[t].full_text # <<>> /\ Len(th[t].sleeps) = 2

\* C9: without a credential call_llm_with_history returns "" with no network
\* call and no sleep, and the endpoint builds its reply from the rule-based
\* fallback applied to the history window plus the user's message.
C9_NoCredential ==
  [][\A t \in Threads :
       (~apiKey /\ Returned(t) /\ th'[t].pc = "idle") =>
         /\ th[t].calls = 0 /\ th[t].sleeps = <<>> /\ th[t].full_text = <<>>
         /\ reply'[t].via = "fallback"
         /\ reply'[t].full_text =
              rule_based_next_question(th[t].pack,
                Append(th[t].history, Turn("user", th[t].user_input)))]_vars

\* without a credential, a reply was produced through the fallback
C9_Witness ==
  \E t \in Threads :
    ~apiKey /\ Replied(t) /\ reply[t].via = "fallback" /\ reply[t].response = Q_PHONE

\* C10: on persistent failure a call makes exactly 4 attempts and sleeps 0.6 s,
\* 1.2 s, 2.4 s, 4.8 s (in tenths: 6, 12, 24, 48) after them, each delay double the
\* previous; it returns "" only once 9.0 s have been slept in all, and no call
\* sleeps longer than that.
C10_Backoff ==
  \A t \in Threads :
    LET me == th[t] IN
    /\ Sum(me.sleeps) <= 90
    /\ Len(me.sleeps) = Cardinality(FailedAttempts(t))
    /\ me.sleeps = SubSeq(<<6, 12, 24, 48>>, 1, Len(me.sleeps))
    /\ \A i \in 2..Len(me.sleeps) : me.sleeps[i] = 2 * me.sleeps[i - 1]
    /\ (apiKey /\ Returned(t) /\ me.full_text = <<>>) =>
         /\ me.calls = 4
         /\ me.sleeps = <<6, 12, 24, 48>>
         /\ Sum(me.sleeps) = 90

\* a call returned "" after four failed attempts
C10_Witness ==
  \E t \in Threads :
    /\ apiKey /\ Returned(t) /\ th[t].full_text = <<>>
    /\ th[t].calls = 4 /\ Sum(th[t].sleeps) = 90

(***************************************************************************)
(* Properties of bot.py's functions, checked under SpecFn                  *)
(***************************************************************************)
AllThree(lead) ==
  Get(lead, K_phone) # <<>> /\ Get(lead, K_name) # <<>> /\ Get(lead, K_email) # <<>>

\* the line the fixed priority prescribes for a lead
Prescribed(lead) ==
  IF Get(lead, K_phone) = <<>> THEN Q_PHONE
  ELSE IF Get(lead, K_name) = <<>> THEN Q_NAME
  ELSE IF Get(lead, K_email) = <<>> THEN Q_EMAIL
  ELSE ACK

\* C4: rule_based_next_question asks one question, chosen from the heuristic lead
\* of the history: phone if phone is empty, else name if name is empty, else email
\* if email is empty; it emits the acknowledgment, with stage "ready" in its tag,
\* only when all three are non-empty; the pack does not change the output (the
\* text required of every application is a function of the history alone).
C4_FallbackPriority ==
  fn.op = "fallback" =>
    LET lead == _lead_from_history(hist)
        line == Prescribed(lead)
        tagged == IF AllThree(lead) THEN Set(lead, K_stage, READY) ELSE lead
    IN /\ fn.message = line \o <<NL>> \o TAG_OPEN \o Dumps(tagged) \o TAG_CLOSE
       /\ line = ACK <=> AllThree(lead)
       /\ Get(tagged, K_stage) = READY <=> AllThree(lead)

\* the fallback asked for the email: phone and name were found, the email was not
C4_Witness ==
  /\ fn.op = "fallback" /\ fn.pack = "immo"
  /\ Prefix(fn.message, Len(Q_EMAIL)) = Q_EMAIL
  /\ Get(_lead_from_history(hist), K_phone) # <<>>

\* C5: extract_lead_json applied to the text of rule_based_next_question gives, as
\* display text, exactly the question or acknowledgment line, and as Lead a record
\* equal field by field to the one the fallback serialized, also when a field
\* holds braces or the text </LEAD_JSON>.
C5_RoundTrip ==
  fn.op = "roundtrip" =>
    LET q == NextQuestion(_lead_from_history(hist))
    IN /\ fn.message = Prescribed(q.lead)
       /\ ~Contains(fn.message, TAG_OPEN)
       /\ fn.message = RStrip(fn.message)
       /\ ~fn.lead.none
       /\ Keys(fn.lead.d) = {K_reason, K_email, K_phone, K_name, K_availability, K_stage}
       /\ \A k \in Keys(fn.lead.d) : Get(fn.lead.d, k) = Get(q.lead, k)
       /\ Get(fn.lead.d, K_stage) = (IF AllThree(q.lead) THEN READY ELSE COLLECTING)

\* a round trip whose lead holds a brace, a quote and the text </LEAD_JSON>
C5_Witness ==
  /\ fn.op = "roundtrip" /\ ~fn.lead.none
  /\ Contains(Get(fn.lead.d, K_reason), <<"}">> \o TAG_CLOSE)
  /\ Contains(Get(fn.lead.d, K_reason), <<QUOTE>>)
  /\ Get(fn.lead.d, K_phone) # <<>>

\* the places where sub starts in text
Occurrences(text, sub) ==
  {i \in 1..(Len(text) - Len(sub) + 1) : SubSeq(text, i, i + Len(sub) - 1) = sub}

\* text with its trailing whitespace removed, then one inline-code marker, then
\* the whitespace before it
BeforeTag(text) ==
  LET t == RStrip(text)
  IN IF t # <<>> /\ t[Len(t)] = BACKTICK THEN RStrip(Prefix(t, Len(t) - 1)) ELSE t

\* the tag a text ends with: its last <LEAD_JSON>, a body in braces, its last
\* </LEAD_JSON>, then nothing but whitespace and at most one inline-code marker
TrailingTag(text) ==
  LET opens == Occurrences(text, TAG_OPEN)
      closes == Occurrences(text, TAG_CLOSE)
      o == Max(opens)
      c == Max(closes)
      body == Strip(SubSeq(text, o + Len(TAG_OPEN), c - 1))
      after == SubSeq(text, c + Len(TAG_CLOSE), Len(text))
  IN IF /\ opens # {} /\ closes # {} /\ o < c
        /\ Len(body) >= 2 /\ body[1] = "{" /\ body[Len(body)] = "}"
        /\ \A i \in DOMAIN after : after[i] \in Space \cup {BACKTICK}
        /\ Cardinality({i \in DOMAIN after : after[i] = BACKTICK}) <= 1
     THEN [found |-> TRUE, before |-> BeforeTag(Prefix(text, o - 1)), body |-> body]
     ELSE [found |-> FALSE, before |-> text, body |-> <<>>]

\* C6: extract_lead_json has three outcomes: a tag at the end with a parsable body
\* gives (the text before the tag, right-stripped; the parsed record); a tag at
\* the end with an unparsable body gives (the text before the tag, right-stripped;
\* null); no tag at the end gives (the input unchanged; null).
C6_ThreeOutcomes ==
  fn.op = "extract" =>
    LET tag == TrailingTag(fn.text)
    IN IF tag.found
       THEN fn.message = tag.before /\ fn.lead = Loads(tag.body)
       ELSE fn.message = fn.text /\ fn.lead = None

\* C7: the Lead of _lead_from_history has stage "ready" if and only if phone, name
\* and email are all non-empty, and "collecting" otherwise; a history without a
\* user turn gives the all-empty Lead; only turns of role "user" contribute.
C7_HeuristicStage ==
  fn.op = "heuristic" =>
    LET d == fn.lead.d
        userOnly == SelectSeq(hist, LAMBDA m : m.role = "user")
    IN /\ ~fn.lead.none
       /\ Get(d, K_stage) = (IF AllThree(d) THEN READY ELSE COLLECTING)
       /\ userOnly = <<>> => d = EmptyLead
       /\ d = _lead_from_history(userOnly)

\* a ready Lead from a history that also holds an assistant turn, and one that is
\* "collecting"
C7_Witness ==
  /\ fn.op = "heuristic" /\ Get(fn.lead.d, K_stage) = READY
  /\ \E i \in DOMAIN hist : hist[i].role = "assistant"
  /\ \E i \in DOMAIN hist : hist[i] = Turn("user", M_EMAIL)
(***************************************************************************)
(* Properties of a conversation, checked under SpecConv                    *)
(***************************************************************************)
\* the turns stored under the key a request names: CONVS[conv_id], or the
\* session's when the request names none
StoredFor(c) == IF c # <<>> THEN ConvsGet(c) ELSE session

\* thread t enters the handler in this step, and reads the stored history
Reads(t) == th[t].pc = "idle" /\ th'[t].pc = "llm"

\* thread t leaves the handler in this step, and writes the history back
Writes(t) == th[t].pc = "llm_done" /\ th'[t].pc = "idle"

\* C11: the history a request hands to the LLM client and to the fallback is the
\* last min(6, n) turns of the n turns stored under its key when it reads them,
\* in the stored order; it is kept as read until the reply is built, and never
\* holds more than 6 turns.
C11_Window ==
  [][\A t \in Threads :
       /\ Reads(t) =>
            \E s \in {StoredFor(th'[t].conv_id)} :
            \E w \in {th'[t].history} :
              /\ Len(w) = (IF Len(s) < 6 THEN Len(s) ELSE 6)
              /\ \A i \in 1..Len(w) : w[i] = s[Len(s) - Len(w) + i]
       /\ (th[t].pc \in {"llm", "llm_done"} /\ th'[t].pc \in {"llm", "llm_done"})
            => th'[t].history = th[t].history
       /\ Len(th'[t].history) <= 6]_vars

\* a request reads a store of eight turns: its window is the last six
C11_Witness ==
  \E t \in Threads :
    /\ th[t].pc = "llm"
    /\ Len(StoredFor(th[t].conv_id)) = 8
    /\ th[t].history = SubSeq(StoredFor(th[t].conv_id), 3, 8)

\* C12: the turns stored under a key are append-only until the key is reset: a
\* step that changes them either resets the key or adds turns after the turns
\* already stored, which stay as they were, in their order.
C12_AppendOnly ==
  [][\A c \in ConvIds :
       \E s \in {ConvsGet(c)} :
       \E s2 \in {ConvsGet(c)'} :
         \/ c \in DOMAIN CONVS /\ c \notin DOMAIN CONVS'
         \/ Len(s2) >= Len(s) /\ SubSeq(s2, 1, Len(s)) = s]_vars

\* turn is a user turn in which the heuristic finds the field k
Gives(turn, k) == IsUserTurn(turn) /\ Get(_lead_from_history(<<turn>>), k) # <<>>

\* C16: in a conversation answered by the fallback alone, once a user turn with a
\* phone number is stored under the key, no later reply asks for the phone again
\* until the key is reset; likewise for the name and for the email; and once a
\* reply has had the stage "ready" (the fallback's closing line is stored), the
\* stage of a later reply is "ready" too.
C16_NoBackslide ==
  [][\A t \in Threads :
       (Writes(t) /\ reply'[t].via = "fallback") =>
         \E s \in {StoredFor(th[t].conv_id)} :
           /\ (\E i \in DOMAIN s : Gives(s[i], K_phone)) => reply'[t].response # Q_PHONE
           /\ (\E i \in DOMAIN s : Gives(s[i], K_name)) => reply'[t].response # Q_NAME
           /\ (\E i \in DOMAIN s : Gives(s[i], K_email)) => reply'[t].response # Q_EMAIL
           /\ (\E i \in DOMAIN s : s[i] = Turn("assistant", ACK))
                => reply'[t].stage = READY]_vars

(***************************************************************************)
(* Properties of requests in parallel, checked under SpecRace              *)
(***************************************************************************)
\* C13: requests for one conv_id are not coordinated: the write of a request
\* replaces whatever is stored under its key by the window the request read
\* plus its own two turns, so the turns another request stored between that
\* read and this write are lost (the witness is the interleaving in which both
\* requests read before either writes and both return a response).
C13_LastWriterWins ==
  [][\A t \in Threads :
       Writes(t) =>
         \E c \in {th[t].conv_id} :
           StoredFor(c)' =
             th[t].history \o <<Turn("user", th[t].user_input),
                                Turn("assistant", reply'[t].response)>>]_vars

\* both requests have returned a response, the one "Parfait..." and the other a
\* question, and the key holds the two turns of the second only
C13_Witness ==
  \E t, u \in Threads, c \in ConvIds :
    /\ t # u /\ nreq = 2
    /\ Replied(t) /\ Replied(u)
    /\ reply[t].response # reply[u].response
    /\ Len(ConvsGet(c)) = 2
    /\ ConvsGet(c)[2] = Turn("assistant", reply[u].response)

\* the calls of send_lead_email made for the conversation c
Dispatches(c) == {i \in DOMAIN outbox : outbox[i].key = c}

\* C17: within one conversation key, which SpecRace never resets, the lead mail is
\* dispatched at most once: when two turns have been handled one after the other
\* (the key holds the four turns of both), at most one of them has dispatched it.
C17_AtMostOnce ==
  \A c \in ConvIds : Len(ConvsGet(c)) = 4 => Cardinality(Dispatches(c)) <= 1

(***************************************************************************)
(* Properties of the heuristic extraction, checked under SpecFn            *)
(***************************************************************************)
\* Jean Dupont
V_JEAN_DUPONT ==
  <<"J","e","a","n"," ","D","u","p","o","n","t">>

\* C14: applied to the three user turns "Je m'appelle Jean Dupont", "jean@ex.com",
\* "0601020304", _lead_from_history returns the name "Jean Dupont", the email
\* "jean@ex.com", the phone "0601020304" and the stage "ready"; and on every
\* history the name it extracts lies within one user turn: it takes in no text
\* of the user turns joined after it.
C14_NameWithinTurn ==
  fn.op = "heuristic" =>
    \E lead \in {fn.lead.d} :
      /\ hist = <<Turn("user", M_NAME), Turn("user", M_EMAIL), Turn("user", M_PHONE)>>
           => /\ Get(lead, K_name) = V_JEAN_DUPONT
              /\ Get(lead, K_email) = M_EMAIL
              /\ Get(lead, K_phone) = M_PHONE
              /\ Get(lead, K_stage) = READY
      /\ Get(lead, K_name) # <<>>
           => \E i \in DOMAIN hist :
                IsUserTurn(hist[i]) /\ Contains(hist[i].content, Get(lead, K_name))

(***************************************************************************)
(* Properties of one turn, checked under SpecTurn                          *)
(***************************************************************************)
\* the generated text ends with no lead tag, or with one whose body does not parse
NoUsableTag(text) ==
  LET tag == TrailingTag(text)
  IN ~tag.found \/ Loads(tag.body) = None

\* C15: when the generated text has no trailing lead tag, or one whose body does
\* not parse, the turn's Lead is the heuristic Lead of the user turns of the
\* window read plus the current message; that Lead decides whether the mail is
\* sent and is the source of the returned stage, which is then "collecting" or
\* "ready".
C15_HeuristicLead ==
  [][\A t \in Threads :
       (Writes(t) /\ th[t].full_text # <<>> /\ NoUsableTag(th[t].full_text)) =>
         \E lead \in {_lead_from_history(
                        Append(th[t].history, Turn("user", th[t].user_input)))} :
           /\ reply'[t].lead = Some(lead)
           /\ reply'[t].stage = Get(lead, K_stage)
           /\ reply'[t].stage \in {COLLECTING, READY}
           /\ (reply'[t].mail # "none") <=>
                (AllThree(lead) /\ th[t].buyer # <<>>)]_vars

\* thread t answers a request whose message is empty in this step
AnswersEmpty(t) == th[t].pc = "idle" /\ th'[t].pc = "idle" /\ reply'[t] # reply[t]

\* C18: send_lead_email is called only by a turn whose Lead has a non-empty
\* phone, name and email and for which a recipient was resolved: the request's
\* buyer_email, else the stored bot's, else the in-memory bot's, else
\* DEFAULT_LEAD_EMAIL. The record passed carries those three fields and the
\* stage "ready", whatever stage the tag carried, and goes to that recipient.
\* A request with an empty message makes no LLM call, writes no history and
\* dispatches nothing.
C18_Dispatch ==
  [][\A t \in Threads :
       /\ Reads(t) =>
            \E src \in {th'[t].sources} :
              \/ /\ \A i \in 1..4 : src[i] = <<>>
                 /\ th'[t].buyer = <<>>
              \/ \E i \in 1..4 :
                   /\ src[i] # <<>>
                   /\ \A j \in 1..(i - 1) : src[j] = <<>>
                   /\ th'[t].buyer = src[i]
       /\ (Writes(t) /\ outbox' # outbox) =>
            \E lead \in {reply'[t].lead.d} :
            \E sent \in {outbox'[Len(outbox')]} :
              /\ outbox' = Append(outbox, sent)
              /\ AllThree(lead)
              /\ th[t].buyer # <<>> /\ sent.to = th[t].buyer
              /\ \A k \in {K_phone, K_name, K_email} : Get(sent.lead, k) = Get(lead, k)
              /\ Get(sent.lead, K_stage) = READY
       /\ (outbox' # outbox) => \E u \in Threads : Writes(u)
       /\ AnswersEmpty(t) =>
            /\ reply'[t].response = EMPTY_MESSAGE_REPLY
            /\ UNCHANGED <<CONVS, session, outbox, th>>]_vars

\* a completion whose tag carries the three fields and the stage "collecting",
\* for a request without buyer_email on a bot stored with one: the returned stage
\* is "collecting", and the record sent to the stored bot's address says "ready"
C18_Witness ==
  \E t \in Threads :
    /\ Replied(t) /\ reply[t].stage = COLLECTING /\ reply[t].mail # "none"
    /\ Len(outbox) = 1
    /\ outbox[1].to = ADDR_DB
    /\ Get(outbox[1].lead, K_stage) = READY
    /\ AllThree(outbox[1].lead)

====
